---- MODULE Spec2Model ----
(***************************************************************************)
(* Model of the hosts detector (pkg/hosts/hosts_detector.go) and of the    *)
(* entry points that run it.  A pass is one call of DetectHosts: it reads  *)
(* the domain list, starts one goroutine per domain behind a counting      *)
(* semaphore, every goroutine runs processHost (getBestIP -> selectBestIP  *)
(* -> pingCached) and sends one HostResult on a buffered channel; the      *)
(* caller drains the channel and sorts by domainOrder.  The entry point    *)
(* that started the pass (DetectAndSave or a JSON handler) renders and     *)
(* persists the result.  Passes of one process share PingCache and the     *)
(* output file; everything DetectHosts declares is per pass.               *)
(***************************************************************************)
EXTENDS Integers, Sequences, FiniteSets, TLC

(***************************************************************************)
(* Bounds of the model.                                                    *)
(***************************************************************************)
\* longest domain list the domain file yields
NumDomains == 3
\* longest candidate list handed to selectBestIP in SpecSelect
MaxCandidates == 13
\* longest line of the domain file in SpecRead, in characters
MaxLineLen == 3
\* number of lines of the longest domain file in SpecRead
MaxLines == 2
\* Size of the semaphore of DetectHosts.  The program sets MaxConcurrent to
\* 10 (hosts_detector.go:25); the model runs the same code with a smaller
\* limiter so that a list longer than the limiter is within reach.
MaxConcurrent == 2

(***************************************************************************)
(* Program constants.                                                      *)
(***************************************************************************)
PingTimeoutSec == 1
PingCount == 3

\* float64(PingTimeoutSec * 1000): the latency recorded for a failed ping
TimeoutMs == PingTimeoutSec * 1000

NotFoundMarker == "# IP Address Not Found"
NoValidIPError == "no valid IP address found"
ReadFailedError == "read domain file failed"
EmptyFileError == "domain file is empty"
\* the error DetectAndSave returns when WriteHostsFile failed
WriteFailedError == "write hosts file failed"
\* the error of os.Create
CreateFailedError == "create failed"

\* the mark WriteHostsFile and GenerateHostsContent append to a line
TimeoutMark == "# Timeout"

DiscardList == <<"1.0.1.1", "1.2.1.1", "127.0.0.1">>

(***************************************************************************)
(* The strings of the model.  SortedIPs lists the address strings the      *)
(* sources can return in the byte-wise order of Go's string comparison,    *)
(* which is the order sort.Strings produces.                               *)
(***************************************************************************)
SortedIPs ==
    <<"1.0.1.1",
      "10.0.0.1", "10.0.0.2", "10.0.0.3", "10.0.0.4", "10.0.0.5",
      "10.0.0.6", "10.0.0.7", "10.0.0.8", "10.0.0.9",
      "10.0.1.1", "10.0.1.2", "10.0.1.3", "10.0.1.4", "10.0.1.5",
      "127.0.0.1", "999.0.0.1">>

IPStrings == {SortedIPs[n] : n \in 1..Len(SortedIPs)}

StringRank(s) == CHOOSE n \in 1..Len(SortedIPs) : SortedIPs[n] = s

\* a < b on Go strings
StringLess(a, b) == StringRank(a) < StringRank(b)

\* net.ParseIP(ip) != nil: every octet of a dotted quad is at most 255
ParseIPOk(ip) == ip \in IPStrings \ {"999.0.0.1"}

DomainNames == {"a.example", "b.example"}

\* what one call of getIPFromWeb can return: every dotted-quad token of the
\* page text, in page order, duplicates included
WebAnswers ==
    {<<>>, <<"999.0.0.1", "10.0.0.2", "127.0.0.1", "10.0.0.1", "10.0.0.2">>}

\* what one call of getIPFromDNS can return: the A records of one resolver
DNSAnswers == {<<>>, <<"10.0.0.1">>}

\* round-trip times (ms) of an echo reply; every reply arrives before the
\* pinger's timeout of PingTimeoutSec seconds
RTTs == {10}

(***************************************************************************)
(* Sequence helpers.                                                       *)
(***************************************************************************)
Range(s) == {s[n] : n \in 1..Len(s)}

SeqsUpTo(S, n) == UNION {[1..m -> S] : m \in 0..n}

Swap(s, i, j) == [s EXCEPT ![i] = s[j], ![j] = s[i]]

\* The sorts below work on sequences of records with an integer field key
\* and compare as the less functions of the program do: by key, with <.
KeyLess(a, b) == a.key < b.key

\* insertionSort of package sort: for i := 1; i < n; i++ { for j := i;
\* j > 0 && less(j, j-1); j-- { swap(j, j-1) } }
RECURSIVE SiftDown(_, _)
SiftDown(s, j) ==
    IF j > 1 /\ KeyLess(s[j], s[j - 1])
    THEN SiftDown(Swap(s, j, j - 1), j - 1)
    ELSE s

RECURSIVE InsertionFrom(_, _)
InsertionFrom(s, i) ==
    IF i > Len(s) THEN s
    ELSE InsertionFrom(SiftDown(s, i), i + 1)

InsertionSort(s) == InsertionFrom(s, 2)

IsSortedByKey(s) ==
    \A i, j \in 1..Len(s) : i < j => ~KeyLess(s[j], s[i])

\* the rearrangements of s
PermutationsOf(s) ==
    {[n \in 1..Len(s) |-> s[f[n]]] :
        f \in {g \in [1..Len(s) -> 1..Len(s)] :
                  \A a, b \in 1..Len(s) : g[a] = g[b] => a = b}}

\* sort.Slice(s, less).  The sort is documented as not stable.  Up to 6
\* elements every release of package sort runs the plain insertion sort;
\* from 7 elements on the result depends on the release (a gap-6 shell pass
\* before the insertion sort up to Go 1.18, pattern-defeating quicksort
\* above 12 elements since Go 1.19), so the outcome is any ordering by less.
SortSlice(s) ==
    IF Len(s) <= 6 THEN {InsertionSort(s)}
    ELSE {p \in PermutationsOf(s) : IsSortedByKey(p)}

\* element 0 of the slice after sort.Slice(s, less)
SortSliceFirst(s) ==
    IF Len(s) <= 6 THEN {InsertionSort(s)[1]}
    ELSE {s[j] : j \in {n \in 1..Len(s) :
                          \A m \in 1..Len(s) : ~KeyLess(s[m], s[n])}}

(***************************************************************************)
(* State.                                                                  *)
(***************************************************************************)
\* The variables from entry to reply are sequences with one element per
\* pass of the process: x[p] is the x of pass p.
VARIABLES
    domainFile,  \* what reading the domain file yields: [ok, domains]
    entry,       \* the entry point that runs the pass
    mainPc,      \* where the goroutine that runs the entry point stands
    domains,     \* DetectHosts: the list readDomainFile returned
    tasks,       \* DetectHosts: one goroutine per domain, with its locals
    semaphore,   \* DetectHosts: number of tokens in the semaphore channel
    resultChan,  \* DetectHosts: the buffered result channel
    chanClosed,  \* DetectHosts: close(resultChan) has happened
    results,     \* DetectHosts: the slice the collection loop appends to
    ret,         \* what DetectHosts returned: [results, err]
    reply,       \* what the entry point returned or responded
    PingCache,   \* the package-level latency map
    pingRuns,    \* per address, how many times pinger.Run() was started
    outputFile,  \* content of the output file
    call         \* a single call of a function of the package, with its
                 \* arguments and locals

vars == <<domainFile, entry, mainPc, domains, tasks, semaphore, resultChan,
          chanClosed, results, ret, reply, PingCache, pingRuns, outputFile,
          call>>

\* the passes of the process
Passes == DOMAIN mainPc

NoResult == [Domain |-> "", IP |-> "", Ping |-> 0, Error |-> ""]

NoReturn == [results |-> <<>>, err |-> "", returned |-> FALSE]

\* an entry point that has not returned or responded yet
NoReply ==
    [done |-> FALSE, err |-> "", code |-> 0, results |-> <<>>,
     content |-> <<>>, total |-> 0, success |-> 0, saveError |-> ""]

\* no single function call is under way
NoCall == [fn |-> ""]

\* the output file before the first write of the process
NoFile == <<"no file">>

\* the locals of a domain goroutine when it is started
NewTask(d) ==
    [pc |-> "acquire", domain |-> d,
     webDone |-> FALSE, dnsDone |-> FALSE, webIPs |-> <<>>, dnsIPs |-> <<>>,
     ipList |-> <<>>, k |-> 0, results |-> <<>>, caller |-> "",
     bestIP |-> "", result |-> NoResult]

\* a goroutine that has left processHost: its locals are gone
Exited(t, pc) == [NewTask(t.domain) EXCEPT !.pc = pc]

TaskIds(p) == 1..Len(tasks[p])

(***************************************************************************)
(* readDomainFile and the head of DetectHosts.                             *)
(***************************************************************************)
\* The lists readDomainFile can return without error.  No step of the program looks into
\* a hostname, so the lists are taken up to renaming: the first entry is
\* always the same name.
DomainLists ==
    {list \in SeqsUpTo(DomainNames, NumDomains) :
        Len(list) > 0 => list[1] = "a.example"}

\* the domain file the process is started on: unreadable, or a list
DomainFiles ==
    {[ok |-> FALSE, domains |-> <<>>]} \cup
    {[ok |-> TRUE, domains |-> list] : list \in DomainLists}

\* DetectHostsStart without the len(domains) == 0 check
DetectHostsStart_NoEmptyCheck(p) ==
    /\ mainPc[p] = "start"
    /\ LET list == domainFile.domains
       IN
        IF ~domainFile.ok
        THEN /\ ret' = [ret EXCEPT ![p] = [results |-> <<>>,
                                            err |-> ReadFailedError,
                                            returned |-> TRUE]]
             /\ mainPc' = [mainPc EXCEPT ![p] = "failed"]
             /\ UNCHANGED <<domains, tasks>>
        ELSE /\ domains' = [domains EXCEPT ![p] = list]
             /\ tasks' = [tasks EXCEPT
                        ![p] = [i \in 1..Len(list) |-> NewTask(list[i])]]
             /\ mainPc' = [mainPc EXCEPT ![p] = "collect"]
             /\ UNCHANGED ret
    /\ UNCHANGED <<domainFile, entry, semaphore, resultChan, chanClosed,
                   results, reply, PingCache, pingRuns, outputFile, call>>

\* DetectHosts up to the start of the goroutines
DetectHostsStart(p) ==
    /\ mainPc[p] = "start"
    /\ LET list == domainFile.domains
       IN
        IF ~domainFile.ok
        THEN /\ ret' = [ret EXCEPT ![p] = [results |-> <<>>,
                                            err |-> ReadFailedError,
                                            returned |-> TRUE]]
             /\ mainPc' = [mainPc EXCEPT ![p] = "failed"]
             /\ UNCHANGED <<domains, tasks>>
        ELSE IF Len(list) = 0
        THEN /\ ret' = [ret EXCEPT ![p] = [results |-> <<>>,
                                            err |-> EmptyFileError,
                                            returned |-> TRUE]]
             /\ mainPc' = [mainPc EXCEPT ![p] = "failed"]
             /\ UNCHANGED <<domains, tasks>>
        ELSE /\ domains' = [domains EXCEPT ![p] = list]
             /\ tasks' = [tasks EXCEPT
                        ![p] = [i \in 1..Len(list) |-> NewTask(list[i])]]
             /\ mainPc' = [mainPc EXCEPT ![p] = "collect"]
             /\ UNCHANGED ret
    /\ UNCHANGED <<domainFile, entry, semaphore, resultChan, chanClosed,
                   results, reply, PingCache, pingRuns, outputFile, call>>

\* Acquire on a semaphore that never fills
Acquire_NoLimit(p, i) ==
    /\ tasks[p][i].pc = "acquire"
    /\ semaphore' = [semaphore EXCEPT ![p] = @ + 1]
    /\ tasks' = [tasks EXCEPT ![p][i].pc = "lookup"]
    /\ UNCHANGED <<domainFile, entry, mainPc, domains, resultChan,
                   chanClosed, results, ret, reply, PingCache, pingRuns,
                   outputFile, call>>

\* semaphore <- struct{}{}
Acquire(p, i) ==
    /\ tasks[p][i].pc = "acquire"
    /\ semaphore[p] < MaxConcurrent
    /\ semaphore' = [semaphore EXCEPT ![p] = @ + 1]
    /\ tasks' = [tasks EXCEPT ![p][i].pc = "lookup"]
    /\ UNCHANGED <<domainFile, entry, mainPc, domains, resultChan,
                   chanClosed, results, ret, reply, PingCache, pingRuns,
                   outputFile, call>>

(***************************************************************************)
(* getBestIP.                                                              *)
(***************************************************************************)
\* go func() { webIPs, _ = getIPFromWeb(domain) }() when the page can
\* yield one of answers
WebLookupOf(p, i, answers) ==
    /\ tasks[p][i].pc = "lookup"
    /\ ~tasks[p][i].webDone
    /\ \E answer \in answers :
        tasks' = [tasks EXCEPT ![p][i].webIPs = answer,
                               ![p][i].webDone = TRUE]
    /\ UNCHANGED <<domainFile, entry, mainPc, domains, semaphore, resultChan,
                   chanClosed, results, ret, reply, PingCache, pingRuns,
                   outputFile, call>>

\* go func() { webIPs, _ = getIPFromWeb(domain) }()
WebLookup(p, i) == WebLookupOf(p, i, WebAnswers)

\* go func() { dnsIPs, _ = getIPFromDNS(domain) }() when the resolvers can
\* yield one of answers
DNSLookupOf(p, i, answers) ==
    /\ tasks[p][i].pc = "lookup"
    /\ ~tasks[p][i].dnsDone
    /\ \E answer \in answers :
        tasks' = [tasks EXCEPT ![p][i].dnsIPs = answer,
                               ![p][i].dnsDone = TRUE]
    /\ UNCHANGED <<domainFile, entry, mainPc, domains, semaphore, resultChan,
                   chanClosed, results, ret, reply, PingCache, pingRuns,
                   outputFile, call>>

\* go func() { dnsIPs, _ = getIPFromDNS(domain) }()
DNSLookup(p, i) == DNSLookupOf(p, i, DNSAnswers)

\* IPSet without the DiscardList filter
IPSet_NoDiscard(webIPs, dnsIPs) ==
    {ip \in Range(webIPs \o dnsIPs) : ParseIPOk(ip)}

\* the keys of ipSet: what is left of append(webIPs, dnsIPs...) after the
\* DiscardList and net.ParseIP filters
IPSet(webIPs, dnsIPs) ==
    {ip \in Range(webIPs \o dnsIPs) :
        ip \notin Range(DiscardList) /\ ParseIPOk(ip)}

\* sort.Strings over the keys of a map
RECURSIVE SortStrings(_)
SortStrings(S) ==
    IF S = {} THEN <<>>
    ELSE LET first == CHOOSE a \in S : \A b \in S : ~StringLess(b, a)
         IN  <<first>> \o SortStrings(S \ {first})

\* Aggregated without the len(ipSet) == 0 exit: selectBestIP returns "" for
\* the empty list and processHost records it with the latency of a failed
\* ping
Aggregated_NoEmptyCheck(t) ==
    LET ipSet == IPSet(t.webIPs, t.dnsIPs)
    IN  IF ipSet = {}
        THEN [t EXCEPT !.result = [Domain |-> t.domain, IP |-> "",
                                   Ping |-> TimeoutMs, Error |-> ""],
                       !.pc = "send"]
        ELSE [t EXCEPT !.ipList = SortStrings(ipSet), !.k = 1,
                       !.caller = "selectBestIP", !.pc = "ping"]

\* The goroutine after both lookups: getBestIP from wg.Wait() to the first
\* pingCached call of selectBestIP, and, when no address is left, the error
\* branch of processHost.
Aggregated(t) ==
    LET ipSet == IPSet(t.webIPs, t.dnsIPs)
    IN  IF ipSet = {}
        THEN [t EXCEPT !.result = [Domain |-> t.domain,
                                   IP |-> NotFoundMarker, Ping |-> 0,
                                   Error |-> NoValidIPError],
                       !.pc = "send"]
        ELSE [t EXCEPT !.ipList = SortStrings(ipSet), !.k = 1,
                       !.caller = "selectBestIP", !.pc = "ping"]

\* Aggregate that waits for the web lookup only
Aggregate_NoWait(p, i) ==
    /\ tasks[p][i].pc = "lookup"
    /\ tasks[p][i].webDone
    /\ tasks' = [tasks EXCEPT ![p][i] = Aggregated(tasks[p][i])]
    /\ UNCHANGED <<domainFile, entry, mainPc, domains, semaphore, resultChan,
                   chanClosed, results, ret, reply, PingCache, pingRuns,
                   outputFile, call>>

\* wg.Wait() of getBestIP, and what follows it
Aggregate(p, i) ==
    /\ tasks[p][i].pc = "lookup"
    /\ tasks[p][i].webDone /\ tasks[p][i].dnsDone
    /\ tasks' = [tasks EXCEPT ![p][i] = Aggregated(tasks[p][i])]
    /\ UNCHANGED <<domainFile, entry, mainPc, domains, semaphore, resultChan,
                   chanClosed, results, ret, reply, PingCache, pingRuns,
                   outputFile, call>>

(***************************************************************************)
(* pingCached, selectBestIP and the rest of processHost.                   *)
(***************************************************************************)
\* the argument of the pingCached call a goroutine is in
PingArg(t) == IF t.caller = "selectBestIP" THEN t.ipList[t.k] ELSE t.bestIP

\* sort.Float64s
RECURSIVE SortFloat64s(_)
SortFloat64s(s) ==
    IF Len(s) = 0 THEN <<>>
    ELSE LET n == CHOOSE a \in 1..Len(s) :
                      \A b \in 1..Len(s) : s[a] <= s[b]
         IN  <<s[n]>> \o
             SortFloat64s([m \in 1..(Len(s) - 1) |->
                              IF m < n THEN s[m] ELSE s[m + 1]])

\* pingTimes[len(pingTimes)/2] of the sorted slice (Go indexes from 0)
Median(pingTimes) == SortFloat64s(pingTimes)[(Len(pingTimes) \div 2) + 1]

\* what one run of the pinger can do: Run() fails or not, and OnRecv has
\* collected the round-trip times of the replies that came back
PingOutcomes ==
    [err : BOOLEAN, pingTimes : SeqsUpTo(RTTs, PingCount)]

\* the value pingCached computes from a run of the pinger
PingValue(out) ==
    IF out.err \/ Len(out.pingTimes) = 0 THEN TimeoutMs
    ELSE Median(out.pingTimes)

\* PingCache[ip] = value
CachePut(cache, ip, value) ==
    [a \in (DOMAIN cache) \cup {ip} |-> IF a = ip THEN value ELSE cache[a]]

\* SelectFirst without the sort: results[0] is the first candidate
SelectFirst_Unsorted(ipPings) == {ipPings[1]}

\* results[0] after the sort.Slice of selectBestIP
SelectFirst(ipPings) ==
    {e.val : e \in SortSliceFirst([n \in 1..Len(ipPings) |->
                       [key |-> ipPings[n].Ping, val |-> ipPings[n]]])}

\* The goroutine after pingCached has returned value to its caller.  In
\* selectBestIP the value is appended to results and the loop goes on; after
\* the last candidate the slice is sorted and results[0].IP goes back through
\* getBestIP to processHost, which calls pingCached(ip) once more.  In
\* processHost the value becomes result.Ping.
Returned(t, value) ==
    IF t.caller = "selectBestIP"
    THEN LET res == Append(t.results, [IP |-> PingArg(t), Ping |-> value])
         IN  IF t.k < Len(t.ipList)
             THEN {[t EXCEPT !.results = res, !.k = t.k + 1]}
             ELSE {[t EXCEPT !.results = res, !.bestIP = best.IP,
                             !.caller = "processHost"] :
                      best \in SelectFirst(res)}
    ELSE {[t EXCEPT !.result = [Domain |-> t.domain, IP |-> t.bestIP,
                                Ping |-> value, Error |-> ""],
                    !.pc = "send"]}

\* pingCached under the read lock: a hit returns the cached value, a miss
\* goes on to the pinger
PingCachedLookup(p, i) ==
    /\ tasks[p][i].pc = "ping"
    /\ LET ip == PingArg(tasks[p][i])
       IN  IF ip \in DOMAIN PingCache
           THEN \E t \in Returned(tasks[p][i], PingCache[ip]) :
                    tasks' = [tasks EXCEPT ![p][i] = t]
           ELSE tasks' = [tasks EXCEPT ![p][i].pc = "probe"]
    /\ UNCHANGED <<domainFile, entry, mainPc, domains, semaphore, resultChan,
                   chanClosed, results, ret, reply, PingCache, pingRuns,
                   outputFile, call>>

\* pingCached after a miss: run the pinger, store the value under the write
\* lock and return it.  ping.NewPinger fails only on an address that does
\* not resolve; every address that reaches pingCached has passed
\* net.ParseIP, so the early return of lines 101-104 is never taken.
PingCachedProbe(p, i) ==
    /\ tasks[p][i].pc = "probe"
    /\ LET ip == PingArg(tasks[p][i])
       IN  \E out \in PingOutcomes :
            /\ pingRuns' = [pingRuns EXCEPT ![ip] = @ + 1]
            /\ PingCache' = CachePut(PingCache, ip, PingValue(out))
            /\ \E t \in Returned([tasks[p][i] EXCEPT !.pc = "ping"],
                                 PingValue(out)) :
                    tasks' = [tasks EXCEPT ![p][i] = t]
    /\ UNCHANGED <<domainFile, entry, mainPc, domains, semaphore, resultChan,
                   chanClosed, results, ret, reply, outputFile, call>>

\* resultChan <- result, the last statement of processHost
Send(p, i) ==
    /\ tasks[p][i].pc = "send"
    /\ Len(resultChan[p]) < Len(domains[p])
    /\ resultChan' = [resultChan EXCEPT
                        ![p] = Append(@, tasks[p][i].result)]
    /\ tasks' = [tasks EXCEPT ![p][i] = Exited(tasks[p][i], "release")]
    /\ UNCHANGED <<domainFile, entry, mainPc, domains, semaphore, chanClosed,
                   results, ret, reply, PingCache, pingRuns, outputFile,
                   call>>

\* Release that keeps the permit: wg.Done() without <-semaphore
Release_KeepsPermit(p, i) ==
    /\ tasks[p][i].pc = "release"
    /\ tasks' = [tasks EXCEPT ![p][i] = Exited(tasks[p][i], "done")]
    /\ UNCHANGED <<domainFile, entry, mainPc, domains, semaphore, resultChan,
                   chanClosed, results, ret, reply, PingCache, pingRuns,
                   outputFile, call>>

\* <-semaphore and the deferred wg.Done()
Release(p, i) ==
    /\ tasks[p][i].pc = "release"
    /\ semaphore' = [semaphore EXCEPT ![p] = @ - 1]
    /\ tasks' = [tasks EXCEPT ![p][i] = Exited(tasks[p][i], "done")]
    /\ UNCHANGED <<domainFile, entry, mainPc, domains, resultChan,
                   chanClosed, results, ret, reply, PingCache, pingRuns,
                   outputFile, call>>

(***************************************************************************)
(* The tail of DetectHosts, and DetectAndSave.                             *)
(***************************************************************************)
\* CloseResultChan without wg.Wait()
CloseResultChan_NoWait(p) ==
    /\ mainPc[p] = "collect"
    /\ ~chanClosed[p]
    /\ chanClosed' = [chanClosed EXCEPT ![p] = TRUE]
    /\ UNCHANGED <<domainFile, entry, mainPc, domains, tasks, semaphore,
                   resultChan, results, ret, reply, PingCache, pingRuns,
                   outputFile, call>>

\* go func() { wg.Wait(); close(resultChan) }()
CloseResultChan(p) ==
    /\ mainPc[p] = "collect"
    /\ ~chanClosed[p]
    /\ \A i \in TaskIds(p) : tasks[p][i].pc = "done"
    /\ chanClosed' = [chanClosed EXCEPT ![p] = TRUE]
    /\ UNCHANGED <<domainFile, entry, mainPc, domains, tasks, semaphore,
                   resultChan, results, ret, reply, PingCache, pingRuns,
                   outputFile, call>>

\* one iteration of for result := range resultChan
Collect(p) ==
    /\ mainPc[p] = "collect"
    /\ Len(resultChan[p]) > 0
    /\ results' = [results EXCEPT ![p] = Append(@, Head(resultChan[p]))]
    /\ resultChan' = [resultChan EXCEPT ![p] = Tail(@)]
    /\ UNCHANGED <<domainFile, entry, mainPc, domains, tasks, semaphore,
                   chanClosed, ret, reply, PingCache, pingRuns, outputFile,
                   call>>

\* domainOrder[d] after the loop that fills the map: the last index of d
DomainOrder(list, d) ==
    CHOOSE i \in 1..Len(list) :
        /\ list[i] = d
        /\ \A j \in 1..Len(list) : list[j] = d => j <= i

\* results after sort.Slice by domainOrder
SortByDomainOrder(list, res) ==
    {[n \in 1..Len(p) |-> p[n].val] :
        p \in SortSlice([n \in 1..Len(res) |->
                 [key |-> DomainOrder(list, res[n].Domain), val |-> res[n]]])}

\* DetectHostsReturn whose loop ends as soon as the channel is empty
DetectHostsReturn_NoClose(p) ==
    /\ mainPc[p] = "collect"
    /\ Len(resultChan[p]) = 0
    /\ \E sorted \in SortByDomainOrder(domains[p], results[p]) :
        ret' = [ret EXCEPT ![p] = [results |-> sorted, err |-> "",
                                   returned |-> TRUE]]
    /\ mainPc' = [mainPc EXCEPT ![p] = "detected"]
    /\ UNCHANGED <<domainFile, entry, domains, tasks, semaphore, resultChan,
                   chanClosed, results, reply, PingCache, pingRuns,
                   outputFile, call>>

\* DetectHostsReturn that returns an error when a domain has failed
DetectHostsReturn_FailOnError(p) ==
    /\ mainPc[p] = "collect"
    /\ chanClosed[p]
    /\ Len(resultChan[p]) = 0
    /\ IF \E n \in 1..Len(results[p]) : results[p][n].Error # ""
       THEN /\ ret' = [ret EXCEPT ![p] = [results |-> <<>>,
                                           err |-> NoValidIPError,
                                           returned |-> TRUE]]
            /\ mainPc' = [mainPc EXCEPT ![p] = "failed"]
       ELSE /\ \E sorted \in SortByDomainOrder(domains[p], results[p]) :
                ret' = [ret EXCEPT ![p] = [results |-> sorted, err |-> "",
                                           returned |-> TRUE]]
            /\ mainPc' = [mainPc EXCEPT ![p] = "detected"]
    /\ UNCHANGED <<domainFile, entry, domains, tasks, semaphore, resultChan,
                   chanClosed, results, reply, PingCache, pingRuns,
                   outputFile, call>>

\* the range loop ends on the closed, drained channel; the results are
\* sorted and returned
DetectHostsReturn(p) ==
    /\ mainPc[p] = "collect"
    /\ chanClosed[p]
    /\ Len(resultChan[p]) = 0
    /\ \E sorted \in SortByDomainOrder(domains[p], results[p]) :
        ret' = [ret EXCEPT ![p] = [results |-> sorted, err |-> "",
                                   returned |-> TRUE]]
    /\ mainPc' = [mainPc EXCEPT ![p] = "detected"]
    /\ UNCHANGED <<domainFile, entry, domains, tasks, semaphore, resultChan,
                   chanClosed, results, reply, PingCache, pingRuns,
                   outputFile, call>>

\* HostsLine that never appends the timeout mark
HostsLine_NoMark(r) == <<r.IP, r.Domain>>

\* One data line of the hosts text, as the sequence of its fields:
\* Sprintf("%-30s %s", result.IP, result.Domain), and "  # Timeout" appended
\* when result.Ping >= float64(PingTimeoutSec*1000).
HostsLine(r) ==
    <<r.IP, r.Domain>> \o
        (IF r.Ping >= TimeoutMs THEN <<TimeoutMark>> ELSE <<>>)

\* the data lines of a result list, one per result
HostsLines(res) == [n \in 1..Len(res) |-> HostsLine(res[n])]

\* the four header lines: title, update time, project address, empty line
HostsHeader == <<<<"# Hosts">>, <<"# update time">>, <<"# project">>, <<>>>>

\* the string GenerateHostsContent builds, line by line
GenerateHostsContent(res) == HostsHeader \o HostsLines(res)

\* what WriteHostsFile writes into the file os.Create has truncated
HostsFileText(res) == HostsHeader \o HostsLines(res)

\* successCount: the results without Error
SuccessCount(res) == Cardinality({n \in 1..Len(res) : res[n].Error = ""})

\* DetectAndSave after DetectHosts returned without error: WriteHostsFile
\* replaces the file and DetectAndSave prints the counts and returns nil,
\* or os.Create fails, the file stays as it was and DetectAndSave returns
\* the error
WriteHostsFile(p) ==
    /\ entry[p] = "DetectAndSave"
    /\ mainPc[p] = "detected"
    /\ \E created \in BOOLEAN :
        IF created
        THEN /\ outputFile' = HostsFileText(ret[p].results)
             /\ mainPc' = [mainPc EXCEPT ![p] = "saved"]
             /\ reply' = [reply EXCEPT ![p] =
                    [NoReply EXCEPT !.done = TRUE,
                                    !.total = Len(ret[p].results),
                                    !.success = SuccessCount(ret[p].results)]]
        ELSE /\ outputFile' = outputFile
             /\ mainPc' = [mainPc EXCEPT ![p] = "saveFailed"]
             /\ reply' = [reply EXCEPT ![p] =
                    [NoReply EXCEPT !.done = TRUE, !.err = WriteFailedError]]
    /\ UNCHANGED <<domainFile, entry, domains, tasks, semaphore, resultChan,
                   chanClosed, results, ret, PingCache, pingRuns, call>>

\* A JSON handler after DetectHosts returned without error: it renders the
\* content, counts the successes, calls WriteHostsFile, sets the
\* X-Save-Error header when that fails, and responds with code 200.
RespondJSON(p) ==
    /\ mainPc[p] = "detected"
    /\ \E created \in BOOLEAN :
        /\ outputFile' = IF created THEN HostsFileText(ret[p].results)
                         ELSE outputFile
        /\ reply' = [reply EXCEPT ![p] =
               [done |-> TRUE, err |-> "", code |-> 200,
                results |-> ret[p].results,
                content |-> GenerateHostsContent(ret[p].results),
                total |-> Len(ret[p].results),
                success |-> SuccessCount(ret[p].results),
                saveError |-> IF created THEN "" ELSE CreateFailedError]]
    /\ mainPc' = [mainPc EXCEPT ![p] = "responded"]
    /\ UNCHANGED <<domainFile, entry, domains, tasks, semaphore, resultChan,
                   chanClosed, results, ret, PingCache, pingRuns, call>>

\* the handler of /hosts/json of startServer
HandleHostsJSON(p) == entry[p] = "hostsJSON" /\ RespondJSON(p)

\* HostsService.getHosts of the gin service
GetHosts(p) == entry[p] = "getHosts" /\ RespondJSON(p)

(***************************************************************************)
(* The specification: a process with an empty cache runs one DetectAndSave *)
(* pass.                                                                   *)
(***************************************************************************)
\* n passes that have not started, run by the entry points es
NewPasses(es) ==
    /\ entry = es
    /\ mainPc = [p \in DOMAIN es |-> "start"]
    /\ domains = [p \in DOMAIN es |-> <<>>]
    /\ tasks = [p \in DOMAIN es |-> <<>>]
    /\ semaphore = [p \in DOMAIN es |-> 0]
    /\ resultChan = [p \in DOMAIN es |-> <<>>]
    /\ chanClosed = [p \in DOMAIN es |-> FALSE]
    /\ results = [p \in DOMAIN es |-> <<>>]
    /\ ret = [p \in DOMAIN es |-> NoReturn]
    /\ reply = [p \in DOMAIN es |-> NoReply]

\* a process that has just started
FreshProcess ==
    /\ PingCache = <<>>
    /\ pingRuns = [ip \in IPStrings |-> 0]
    /\ outputFile = NoFile
    /\ call = NoCall

Init ==
    /\ domainFile \in DomainFiles
    /\ NewPasses(<<"DetectAndSave">>)
    /\ FreshProcess

Next ==
    \/ \E p \in Passes : DetectHostsStart(p)
    \/ \E p \in Passes : \E i \in TaskIds(p) : Acquire(p, i)
    \/ \E p \in Passes : \E i \in TaskIds(p) : WebLookup(p, i)
    \/ \E p \in Passes : \E i \in TaskIds(p) : DNSLookup(p, i)
    \/ \E p \in Passes : \E i \in TaskIds(p) : Aggregate(p, i)
    \/ \E p \in Passes : \E i \in TaskIds(p) : PingCachedLookup(p, i)
    \/ \E p \in Passes : \E i \in TaskIds(p) : PingCachedProbe(p, i)
    \/ \E p \in Passes : \E i \in TaskIds(p) : Send(p, i)
    \/ \E p \in Passes : \E i \in TaskIds(p) : Release(p, i)
    \/ \E p \in Passes : CloseResultChan(p)
    \/ \E p \in Passes : Collect(p)
    \/ \E p \in Passes : DetectHostsReturn(p)
    \/ \E p \in Passes : WriteHostsFile(p)

Spec == Init /\ [][Next]_vars

(***************************************************************************)
(* SpecSelect: selectBestIP on longer candidate lists.  One domain          *)
(* goroutine holds a permit, the web source has answered with up to        *)
(* MaxCandidates addresses and the goroutine runs selectBestIP on them.    *)
(***************************************************************************)
\* the addresses that pass the filters of getBestIP
CandidateIPs ==
    {ip \in IPStrings : ip \notin Range(DiscardList) /\ ParseIPOk(ip)}

\* SortStrings(S) back to front: a page that lists the addresses of S in
\* descending order
RECURSIVE Descending(_)
Descending(S) ==
    IF S = {} THEN <<>>
    ELSE LET last == CHOOSE a \in S : \A b \in S : ~StringLess(a, b)
         IN  <<last>> \o Descending(S \ {last})

\* No step of the program looks into an address, so the candidate sets are
\* taken up to renaming: the first m candidate addresses, for every m.
LongWebAnswers ==
    {Descending({ip \in CandidateIPs :
                    Cardinality({a \in CandidateIPs : StringLess(a, ip)}) < m}) :
        m \in 1..MaxCandidates}

InitSelect ==
    /\ domainFile = [ok |-> TRUE, domains |-> <<"a.example">>]
    /\ entry = <<"DetectAndSave">>
    /\ mainPc = <<"collect">>
    /\ domains = <<<<"a.example">>>>
    /\ \E answer \in LongWebAnswers :
        tasks = <<<<Aggregated([NewTask("a.example") EXCEPT
                                   !.pc = "lookup",
                                   !.webDone = TRUE, !.webIPs = answer,
                                   !.dnsDone = TRUE])>>>>
    /\ semaphore = <<1>>
    /\ resultChan = <<<<>>>>
    /\ chanClosed = <<FALSE>>
    /\ results = <<<<>>>>
    /\ ret = <<NoReturn>>
    /\ reply = <<NoReply>>
    /\ FreshProcess

NextSelect ==
    \/ \E p \in Passes : \E i \in TaskIds(p) : PingCachedLookup(p, i)
    \/ \E p \in Passes : \E i \in TaskIds(p) : PingCachedProbe(p, i)

SpecSelect == InitSelect /\ [][NextSelect]_vars

(***************************************************************************)
(* Properties.                                                             *)
(***************************************************************************)
\* DetectHosts of pass p has returned a result list and no error
ReturnedOk(p) == ret[p].returned /\ ret[p].err = ""

\* the Domain fields of a result list
DomainsOf(res) == [n \in 1..Len(res) |-> res[n].Domain]

\* how many entries of a sequence equal x
Count(s, x) == Cardinality({n \in 1..Len(s) : s[n] = x})

\* the goroutines of pass p that are inside processHost
Inside(p) ==
    {i \in TaskIds(p) : tasks[p][i].pc \in {"lookup", "ping", "probe", "send"}}

\* the domain goroutines of all passes, with their locals
Tasks == UNION {Range(tasks[p]) : p \in Passes}

\* C1: the result domains DetectHosts returns equal the input domain list
\* position by position, also when a domain is listed more than once.
C1_OutputOrderEqualsInput ==
    \A p \in Passes :
        ReturnedOk(p) => DomainsOf(ret[p].results) = domains[p]

\* C2: for every address, at most one run of the pinger is ever started.
C2_AtMostOneProbePerIP ==
    \A ip \in IPStrings : pingRuns[ip] <= 1

\* C3: at most MaxConcurrent domain goroutines of a pass are inside
\* processHost at any time, whatever the length of the domain list.
C3_AtMostMaxConcurrentInside ==
    \A p \in Passes : Cardinality(Inside(p)) <= MaxConcurrent

\* C3 witness: a list longer than the limiter, the limiter full and a
\* goroutine waiting for a permit
C3_Witness ==
    \E p \in Passes :
        /\ Len(tasks[p]) > MaxConcurrent
        /\ Cardinality(Inside(p)) = MaxConcurrent
        /\ \E i \in TaskIds(p) : tasks[p][i].pc = "acquire"

\* C4: when DetectHosts returns without error the result list has one
\* HostResult per input entry: as many results as domains, and for every
\* name as many results as the list has entries of that name; by then every
\* goroutine has finished and the channel is drained.
C4_OneResultPerDomain ==
    \A p \in Passes :
        ReturnedOk(p) =>
            /\ Len(ret[p].results) = Len(domains[p])
            /\ \A d \in DomainNames :
                  Count(DomainsOf(ret[p].results), d) = Count(domains[p], d)
            /\ \A i \in TaskIds(p) : tasks[p][i].pc = "done"
            /\ resultChan[p] = <<>>

\* C4 witness: a pass over a full-length list has returned a failed and a
\* successful result
C4_Witness ==
    \E p \in Passes :
        /\ ReturnedOk(p)
        /\ Len(domains[p]) = NumDomains
        /\ \E n, m \in 1..Len(ret[p].results) :
              /\ ret[p].results[n].Error # ""
              /\ ret[p].results[m].Error = ""

\* the goroutines whose selectBestIP call has returned and whose result is
\* not sent yet
Selected == {t \in Tasks : t.caller = "processHost"}

\* C5: the address selectBestIP returns is a member of the candidate list
\* and its latency, as measured in that call, is at most the latency
\* measured in that call for every other candidate.
C5_SelectedIsFastest ==
    \A t \in Selected :
        /\ Len(t.results) = Len(t.ipList)
        /\ \E n \in 1..Len(t.results) :
              /\ t.ipList[n] = t.bestIP
              /\ t.results[n].IP = t.bestIP
              /\ \A m \in 1..Len(t.results) :
                    t.results[n].Ping <= t.results[m].Ping

\* C5 witness: a selection over several candidates with different latencies
\* in which the first candidate is not the fastest
C5_Witness ==
    \E t \in Selected :
        /\ Len(t.results) >= 3
        /\ \E m \in 1..Len(t.results) :
              t.results[m].Ping < t.results[1].Ping

\* the first candidate, in list order, with the smallest measured latency
FirstFastest(ipPings) ==
    ipPings[CHOOSE n \in 1..Len(ipPings) :
               /\ \A m \in 1..Len(ipPings) : ipPings[n].Ping <= ipPings[m].Ping
               /\ \A m \in 1..(n - 1) : ipPings[m].Ping > ipPings[n].Ping]

\* C6: when several candidates share the smallest latency, selectBestIP
\* returns the one that comes first in the sorted candidate list, for lists
\* of any length.
C6_TieGoesToFirst ==
    \A t \in Selected : t.bestIP = FirstFastest(t.results).IP

\* C7: an entry of PingCache is never removed and its value never changes.
C7_CacheEntriesNeverChange ==
    [][\A ip \in DOMAIN PingCache :
          ip \in DOMAIN PingCache' /\ PingCache'[ip] = PingCache[ip]]_vars

\* both lookups of a goroutine have returned and neither found an address
NoAddresses(t) ==
    t.webDone /\ t.dnsDone /\ t.webIPs = <<>> /\ t.dnsIPs = <<>>

\* in this step goroutine i of pass p moves and its lookups had found no
\* address
FailingStep(p, i) ==
    /\ i \in DOMAIN tasks[p] /\ i \in DOMAIN tasks'[p]
    /\ NoAddresses(tasks[p][i])
    /\ tasks'[p][i] # tasks[p][i]

\* C8: a domain for which both sources return no address gets a HostResult
\* with the not-found marker and a non-empty Error; its goroutine leaves the
\* cache and every other goroutine as they are, sends its result, and the
\* pass still returns one result for every domain.
C8_FailedDomainIsolated ==
    /\ [](\A t \in Tasks :
            (t.pc = "send" /\ NoAddresses(t)) =>
                /\ t.result.Domain = t.domain
                /\ t.result.IP = NotFoundMarker
                /\ t.result.Error # "")
    /\ [][\A p \in Passes : \A i \in TaskIds(p) : FailingStep(p, i) =>
            /\ PingCache' = PingCache
            /\ pingRuns' = pingRuns
            /\ \A j \in TaskIds(p) \ {i} : tasks'[p][j] = tasks[p][j]
            /\ tasks'[p][i].pc = "release" =>
                  resultChan'[p] = Append(resultChan[p], tasks[p][i].result)]_vars
    /\ [](\A p \in Passes :
            ReturnedOk(p) => Len(ret[p].results) = Len(domains[p]))

\* C8 witness: a pass has returned in which one domain found no address and
\* another domain was resolved
C8_Witness ==
    \E p \in Passes :
        /\ ReturnedOk(p)
        /\ \E n, m \in 1..Len(ret[p].results) :
              /\ ret[p].results[n].IP = NotFoundMarker
              /\ ret[p].results[n].Domain = "b.example"
              /\ ret[p].results[m].Error = ""
              /\ ret[p].results[m].Domain = "a.example"

\* a HostResult that records a failed discovery
IsNotFound(r) == r.IP = NotFoundMarker /\ r.Error # ""

\* the HostResults that are on their way from the goroutines to the caller
InFlight ==
    UNION {Range(resultChan[p]) \cup Range(results[p])
               \cup Range(ret[p].results) : p \in Passes}

\* C9: the IP of a HostResult is the not-found marker (with a non-empty
\* Error) or an address that a source returned for that domain, that parses
\* as an IP, is not in DiscardList and was passed to pingCached during the
\* selection of that domain.  The goroutine that is about to send shows it
\* for its result; sent results keep the marker or a parsed, undiscarded
\* address.
C9_ResultIPIsVetted ==
    /\ \A t \in Tasks :
          t.pc = "send" =>
            \/ IsNotFound(t.result)
            \/ /\ t.result.Error = ""
               /\ t.result.Domain = t.domain
               /\ t.result.IP \in Range(t.webIPs) \cup Range(t.dnsIPs)
               /\ ParseIPOk(t.result.IP)
               /\ t.result.IP \notin Range(DiscardList)
               /\ \E n \in 1..Len(t.results) :
                      t.results[n].IP = t.result.IP
    /\ \A r \in InFlight :
          \/ IsNotFound(r)
          \/ /\ r.Error = ""
             /\ ParseIPOk(r.IP)
             /\ r.IP \notin Range(DiscardList)

\* C9 witness: a goroutine is about to send an address it chose among
\* several candidates after its sources also returned discarded and
\* unparsable addresses
C9_Witness ==
    \E t \in Tasks :
        /\ t.pc = "send"
        /\ t.result.Error = ""
        /\ Len(t.results) >= 2
        /\ \E ip \in Range(t.webIPs) : ~ParseIPOk(ip)
        /\ \E ip \in Range(t.webIPs) : ip \in Range(DiscardList)

\* the domain list cannot be read or has no entry
NoDomains == ~domainFile.ok \/ Len(domainFile.domains) = 0

\* C10: if the domain list cannot be read or is empty, DetectHosts returns
\* an error and no results; no domain goroutine is started (so no DNS, HTTP
\* or ping call is made), the latency cache stays as it was and the output
\* file is not written.
C10_InputFailureStopsThePass ==
    NoDomains =>
        /\ \A p \in Passes :
              /\ mainPc[p] \in {"start", "failed"}
              /\ mainPc[p] = "failed" =>
                    /\ ret[p].returned
                    /\ ret[p].err # ""
                    /\ ret[p].results = <<>>
              /\ tasks[p] = <<>>
        /\ \A ip \in IPStrings : pingRuns[ip] = 0
        /\ PingCache = <<>>
        /\ outputFile = NoFile

\* C10 witness: DetectHosts has returned its error for an empty domain list
C10_Witness ==
    /\ domainFile.ok
    /\ Len(domainFile.domains) = 0
    /\ \E p \in Passes :
          mainPc[p] = "failed" /\ ret[p].err = EmptyFileError

(***************************************************************************)
(* SpecSave: what the entry points do with the result of a pass.  A pass   *)
(* has returned from DetectHosts without error; its entry point renders,   *)
(* persists and reports.                                                   *)
(***************************************************************************)
\* the entry points that run a pass and persist it
EntryPoints == {"DetectAndSave", "hostsJSON", "getHosts"}

\* what processHost can send for domain d: an address with a measured
\* latency, an address whose pings timed out, or the not-found marker
HostResultsOf(d) ==
    {[Domain |-> d, IP |-> "10.0.0.1", Ping |-> 10, Error |-> ""],
     [Domain |-> d, IP |-> "10.0.0.2", Ping |-> TimeoutMs, Error |-> ""],
     [Domain |-> d, IP |-> NotFoundMarker, Ping |-> 0,
      Error |-> NoValidIPError]}

\* what the collection loop of DetectHosts can hold for a domain list when
\* the goroutines send in list order
ResultLists(list) ==
    {res \in [1..Len(list) -> UNION {HostResultsOf(d) : d \in DomainNames}] :
        \A n \in 1..Len(list) : res[n] \in HostResultsOf(list[n])}

\* the addresses of a result list
ResolvedIPs(res) == {res[n].IP : n \in {m \in 1..Len(res) : res[m].Error = ""}}

\* the state of pass 1 and of the process when DetectHosts has collected
\* res for the domain list and returns it sorted
Detected(list, res) ==
    /\ domainFile = [ok |-> TRUE, domains |-> list]
    /\ mainPc = <<"detected">>
    /\ domains = <<list>>
    /\ tasks = <<[i \in 1..Len(list) |-> Exited(NewTask(list[i]), "done")]>>
    /\ semaphore = <<0>>
    /\ resultChan = <<<<>>>>
    /\ chanClosed = <<TRUE>>
    /\ results = <<res>>
    /\ \E sorted \in SortByDomainOrder(list, res) :
        ret = <<[results |-> sorted, err |-> "", returned |-> TRUE]>>
    /\ reply = <<NoReply>>
    /\ PingCache = [ip \in ResolvedIPs(res) |->
                       IF ip = "10.0.0.1" THEN 10 ELSE TimeoutMs]
    /\ pingRuns = [ip \in IPStrings |->
                       IF ip \in ResolvedIPs(res) THEN 1 ELSE 0]
    /\ outputFile = NoFile
    /\ call = NoCall

InitSave ==
    /\ entry \in {<<e>> : e \in EntryPoints}
    /\ \E list \in DomainLists :
        /\ Len(list) > 0
        /\ \E res \in ResultLists(list) : Detected(list, res)

NextSave ==
    \/ \E p \in Passes : WriteHostsFile(p)
    \/ \E p \in Passes : HandleHostsJSON(p)
    \/ \E p \in Passes : GetHosts(p)

SpecSave == InitSave /\ [][NextSave]_vars

\* WriteHostsFile of pass p has failed
SaveFailed(p) == mainPc[p] = "saveFailed" \/ reply[p].saveError # ""

\* C11: when a pass has succeeded and writing the output file fails, the
\* entry point that ran the pass (DetectAndSave, a JSON handler) still
\* reports success: it returns no error, a handler responds with code 200
\* and the results of the pass, and the write failure shows only in the
\* X-Save-Error header.
C11_SaveFailureKeepsThePass ==
    \A p \in Passes :
        (reply[p].done /\ SaveFailed(p)) =>
            /\ reply[p].err = ""
            /\ entry[p] # "DetectAndSave" =>
                  /\ reply[p].code = 200
                  /\ reply[p].results = ret[p].results
                  /\ reply[p].total = Len(ret[p].results)

\* the results of a list that record a failed discovery
FailedIn(res) == {n \in 1..Len(res) : IsNotFound(res[n])}

\* C12: for a readable, non-empty domain list DetectHosts returns no error
\* and one result per domain however many domains fail discovery, all of
\* them included.  A failure shows only in the Error field of its own
\* result and in the counts DetectAndSave prints: DetectAndSave returns nil
\* after the write, and the only error it can return is the write error.
C12_DomainFailuresDoNotFailThePass ==
    \A p \in Passes :
        /\ (~NoDomains /\ ret[p].returned) =>
              /\ ret[p].err = ""
              /\ Len(ret[p].results) = Len(domains[p])
              /\ \A n \in 1..Len(ret[p].results) :
                    ret[p].results[n].Error # "" =>
                        /\ IsNotFound(ret[p].results[n])
                        /\ ret[p].results[n].Domain \in Range(domains[p])
        /\ mainPc[p] = "saved" =>
              /\ reply[p].done
              /\ reply[p].err = ""
              /\ reply[p].total = Len(domains[p])
              /\ reply[p].total - reply[p].success =
                    Cardinality(FailedIn(ret[p].results))
        /\ reply[p].err # "" =>
              mainPc[p] = "saveFailed" /\ reply[p].err = WriteFailedError

\* C12 witness: DetectAndSave has returned nil for a pass over several
\* domains in which every domain failed discovery
C12_Witness ==
    \E p \in Passes :
        /\ mainPc[p] = "saved"
        /\ Len(ret[p].results) >= 2
        /\ reply[p].success = 0
        /\ \A n \in 1..Len(ret[p].results) : ret[p].results[n].Error # ""

(***************************************************************************)
(* SpecDNS: one call of getIPFromDNS.  The call record holds what every    *)
(* resolver of DNSServers would answer, and the locals of the function.    *)
(***************************************************************************)
DNSServers ==
    <<"1.1.1.1:53", "8.8.8.8:53", "101.101.101.101:53", "101.102.103.104:53">>

\* the address bytes an A record can carry
ARecordData == {<<10, 0, 0, 1>>, <<10, 0, 0, 2>>}

\* a.A.String(): the dotted-quad text of the address bytes
IPv4String(a) == IF a = <<10, 0, 0, 1>> THEN "10.0.0.1" ELSE "10.0.0.2"

\* resource records of an answer section
ARecord(a) == [type |-> "A", data |-> a]
CNAMERecord == [type |-> "CNAME", data |-> <<>>]

\* the answer sections a resolver can send: empty, an alias only, one
\* address, an alias followed by two addresses
AnswerSections ==
    {<<>>,
     <<CNAMERecord>>,
     <<ARecord(<<10, 0, 0, 1>>)>>,
     <<CNAMERecord, ARecord(<<10, 0, 0, 2>>), ARecord(<<10, 0, 0, 1>>)>>}

\* the outcomes of c.Exchange: an error, or a message with an answer section
DNSResponses ==
    {[err |-> TRUE, answer |-> <<>>]} \cup
    {[err |-> FALSE, answer |-> a] : a \in AnswerSections}

\* for _, ans := range r.Answer { if a, ok := ans.(*dns.A); ok {
\* allIPs = append(allIPs, a.A.String()) } }
RECURSIVE AppendARecords(_, _)
AppendARecords(allIPs, answer) ==
    IF answer = <<>> THEN allIPs
    ELSE AppendARecords(
             IF Head(answer).type = "A"
             THEN Append(allIPs, IPv4String(Head(answer).data))
             ELSE allIPs,
             Tail(answer))

\* DNSExchange without the break: every resolver is queried
DNSExchange_NoBreak ==
    /\ call.fn = "getIPFromDNS"
    /\ ~call.loopDone
    /\ LET r == call.responses[call.server]
           ips == IF r.err THEN call.allIPs
                  ELSE AppendARecords(call.allIPs, r.answer)
       IN  call' = [call EXCEPT
                !.queried = Append(@, DNSServers[call.server]),
                !.allIPs = ips,
                !.server = @ + 1,
                !.loopDone = call.server = Len(DNSServers)]
    /\ UNCHANGED <<domainFile, entry, mainPc, domains, tasks, semaphore,
                   resultChan, chanClosed, results, ret, reply, PingCache,
                   pingRuns, outputFile>>

\* one iteration of the loop over DNSServers: Exchange with the next
\* resolver, continue on an error, collect the A records, break when
\* allIPs is not empty
DNSExchange ==
    /\ call.fn = "getIPFromDNS"
    /\ ~call.loopDone
    /\ LET r == call.responses[call.server]
           ips == IF r.err THEN call.allIPs
                  ELSE AppendARecords(call.allIPs, r.answer)
       IN  call' = [call EXCEPT
                !.queried = Append(@, DNSServers[call.server]),
                !.allIPs = ips,
                !.server = @ + 1,
                !.loopDone = \/ call.server = Len(DNSServers)
                             \/ (~r.err /\ Len(ips) > 0)]
    /\ UNCHANGED <<domainFile, entry, mainPc, domains, tasks, semaphore,
                   resultChan, chanClosed, results, ret, reply, PingCache,
                   pingRuns, outputFile>>

\* return allIPs, nil
DNSReturn ==
    /\ call.fn = "getIPFromDNS"
    /\ call.loopDone
    /\ ~call.returned
    /\ call' = [call EXCEPT !.returned = TRUE, !.ips = call.allIPs,
                            !.err = ""]
    /\ UNCHANGED <<domainFile, entry, mainPc, domains, tasks, semaphore,
                   resultChan, chanClosed, results, ret, reply, PingCache,
                   pingRuns, outputFile>>

\* a process that runs no pass
NoPasses ==
    /\ domainFile = [ok |-> TRUE, domains |-> <<"a.example">>]
    /\ NewPasses(<<>>)
    /\ PingCache = <<>>
    /\ pingRuns = [ip \in IPStrings |-> 0]
    /\ outputFile = NoFile

InitDNS ==
    /\ NoPasses
    /\ \E responses \in [DOMAIN DNSServers -> DNSResponses] :
        call = [fn |-> "getIPFromDNS", responses |-> responses,
                server |-> 1, queried |-> <<>>, allIPs |-> <<>>,
                loopDone |-> FALSE, returned |-> FALSE, ips |-> <<>>,
                err |-> "not returned"]

NextDNS == DNSExchange \/ DNSReturn

SpecDNS == InitDNS /\ [][NextDNS]_vars

\* the resolvers whose answer has at least one address
Answering(responses) ==
    {n \in DOMAIN responses :
        /\ ~responses[n].err
        /\ \E k \in 1..Len(responses[n].answer) :
              responses[n].answer[k].type = "A"}

IsARecord(rr) == rr.type = "A"

\* the addresses of an answer section, in the order of the section
AddressesOf(answer) ==
    LET as == SelectSeq(answer, IsARecord)
    IN  [k \in 1..Len(as) |-> IPv4String(as[k].data)]

\* C13: getIPFromDNS queries the resolvers in the order of DNSServers and
\* returns exactly the addresses of the A records of the first resolver
\* that answers with at least one address, without querying a later one; a
\* resolver that fails or answers without an A record is skipped; when no
\* resolver yields an address the result is empty, and the error is nil in
\* every case.
C13_FirstAnsweringResolver ==
    call.fn = "getIPFromDNS" =>
        /\ call.queried = SubSeq(DNSServers, 1, Len(call.queried))
        /\ call.returned =>
              /\ call.err = ""
              /\ IF Answering(call.responses) = {}
                 THEN /\ call.ips = <<>>
                      /\ call.queried = DNSServers
                 ELSE LET first == CHOOSE n \in Answering(call.responses) :
                              \A m \in Answering(call.responses) : n <= m
                      IN  /\ call.ips =
                                AddressesOf(call.responses[first].answer)
                          /\ call.queried = SubSeq(DNSServers, 1, first)

\* C13 witness: the call has returned two addresses after the first
\* resolver failed, the second answered with an alias only and the third
\* answered; the fourth would have answered with another address
C13_Witness ==
    /\ call.fn = "getIPFromDNS"
    /\ call.returned
    /\ call.responses[1].err
    /\ ~call.responses[2].err /\ call.responses[2].answer = <<CNAMERecord>>
    /\ Len(call.ips) = 2
    /\ Len(call.queried) = 3
    /\ call.responses[4].answer = <<ARecord(<<10, 0, 0, 1>>)>>

(***************************************************************************)
(* SpecRender: GenerateHostsContent and WriteHostsFile called on a result  *)
(* list.  Both are public methods; the list is whatever the caller passes. *)
(***************************************************************************)
\* HostResults a caller can pass: a measured address, an address at the
\* timeout latency, an address with a latency above it, a failed domain
RenderResults ==
    {[Domain |-> "a.example", IP |-> "10.0.0.1", Ping |-> 10, Error |-> ""],
     [Domain |-> "a.example", IP |-> "10.0.0.2", Ping |-> TimeoutMs,
      Error |-> ""],
     [Domain |-> "b.example", IP |-> "10.0.0.3", Ping |-> 2 * TimeoutMs,
      Error |-> ""],
     [Domain |-> "b.example", IP |-> NotFoundMarker, Ping |-> 0,
      Error |-> NoValidIPError]}

\* no text has been produced
NoText == <<<<"no text">>>>

\* content := GenerateHostsContent(results)
CallGenerateHostsContent ==
    /\ call.fn = "render"
    /\ call.content = NoText
    /\ call' = [call EXCEPT !.content = GenerateHostsContent(call.results)]
    /\ UNCHANGED <<domainFile, entry, mainPc, domains, tasks, semaphore,
                   resultChan, chanClosed, results, ret, reply, PingCache,
                   pingRuns, outputFile>>

\* err := WriteHostsFile(results): os.Create fails and the file stays as it
\* was, or the file is replaced
CallWriteHostsFile ==
    /\ call.fn = "render"
    /\ call.written = "no"
    /\ \E created \in BOOLEAN :
        IF created
        THEN /\ outputFile' = HostsFileText(call.results)
             /\ call' = [call EXCEPT !.written = "ok"]
        ELSE /\ outputFile' = outputFile
             /\ call' = [call EXCEPT !.written = "failed"]
    /\ UNCHANGED <<domainFile, entry, mainPc, domains, tasks, semaphore,
                   resultChan, chanClosed, results, ret, reply, PingCache,
                   pingRuns>>

InitRender ==
    /\ NoPasses
    /\ \E res \in SeqsUpTo(RenderResults, NumDomains) :
        call = [fn |-> "render", results |-> res, content |-> NoText,
                written |-> "no"]

NextRender == CallGenerateHostsContent \/ CallWriteHostsFile

SpecRender == InitRender /\ [][NextRender]_vars

\* the texts that have been rendered from call.results
Rendered ==
    (IF call.content # NoText THEN {call.content} ELSE {}) \cup
    (IF call.written = "ok" THEN {outputFile} ELSE {})

\* the latency of r is the timeout sentinel
AtSentinel(r) == r.Ping = TimeoutMs

\* the latency of r is the timeout sentinel or above it
AtLeastSentinel(r) == r.Ping >= TimeoutMs

\* text is the header followed by one line per result of res, in the order
\* of res; every line starts with the IP field, then the domain, and ends
\* with the timeout mark exactly for the results that are Marked
OneLinePerResult(text, res, Marked(_)) ==
    /\ Len(text) = Len(HostsHeader) + Len(res)
    /\ SubSeq(text, 1, Len(HostsHeader)) = HostsHeader
    /\ \A n \in 1..Len(res) :
          LET line == text[Len(HostsHeader) + n]
          IN  /\ Len(line) \in {2, 3}
              /\ line[1] = res[n].IP
              /\ line[2] = res[n].Domain
              /\ Len(line) = 3 => line[3] = TimeoutMark
              /\ Len(line) = 3 <=> Marked(res[n])

\* C14 as stated: the hosts text of GenerateHostsContent and of
\* WriteHostsFile has, after the header, exactly one data line per result in
\* list order, each with the IP field (or the marker) followed by the
\* domain, and a line carries the timeout mark if and only if the latency
\* of its result equals the timeout sentinel.
C14_MarkIffAtSentinel ==
    call.fn = "render" =>
        \A text \in Rendered : OneLinePerResult(text, call.results, AtSentinel)

\* C14 amended: as above, but a line carries the timeout mark if and only if
\* the latency of its result is at least the timeout sentinel.
C14_MarkIffAtLeastSentinel ==
    call.fn = "render" =>
        \A text \in Rendered :
            OneLinePerResult(text, call.results, AtLeastSentinel)

\* C14 witness: both functions have rendered a list of three results: one
\* below the sentinel, one at it and one above it
C14_Witness ==
    /\ call.fn = "render"
    /\ call.content # NoText
    /\ call.written = "ok"
    /\ Len(call.results) = 3
    /\ call.results[1].Ping < TimeoutMs
    /\ call.results[2].Ping = TimeoutMs
    /\ call.results[3].Ping > TimeoutMs

(***************************************************************************)
(* SpecPing: one call of pingCached that misses the cache.  The call       *)
(* record holds the argument and what the pinger will observe.             *)
(***************************************************************************)
\* round-trip times (ms) of the echo replies of one run
ProbeRTTs == {10, 20, 40}

\* what one run of the pinger can do, over ProbeRTTs
ProbeOutcomes == [err : BOOLEAN, pingTimes : SeqsUpTo(ProbeRTTs, PingCount)]

\* pingCached(ip) after the miss.  ping.NewPinger resolves its argument and
\* fails on a string that is no address; then the sentinel is returned and
\* nothing is cached.  Otherwise the pinger runs and the value computed from
\* the run is cached and returned.
CallPingCached ==
    /\ call.fn = "pingCached"
    /\ ~call.returned
    /\ IF ~ParseIPOk(call.ip)
       THEN /\ call' = [call EXCEPT !.returned = TRUE, !.value = TimeoutMs]
            /\ UNCHANGED <<PingCache, pingRuns>>
       ELSE /\ call' = [call EXCEPT !.returned = TRUE, !.started = TRUE,
                                    !.value = PingValue(call.out)]
            /\ pingRuns' = [pingRuns EXCEPT ![call.ip] = @ + 1]
            /\ PingCache' = CachePut(PingCache, call.ip, PingValue(call.out))
    /\ UNCHANGED <<domainFile, entry, mainPc, domains, tasks, semaphore,
                   resultChan, chanClosed, results, ret, reply, outputFile>>

InitPing ==
    /\ NoPasses
    /\ \E ip \in {"10.0.0.1", "999.0.0.1"}, out \in ProbeOutcomes :
        call = [fn |-> "pingCached", ip |-> ip, out |-> out,
                started |-> FALSE, returned |-> FALSE, value |-> 0]

NextPing == CallPingCached

SpecPing == InitPing /\ [][NextPing]_vars

\* the median of a non-empty sequence of numbers: the middle value of an odd
\* number of values, the mean of the two middle values of an even number
MedianOf(s) ==
    LET sorted == SortFloat64s(s)
        n == Len(s)
    IN  IF n % 2 = 1 THEN sorted[(n + 1) \div 2]
        ELSE (sorted[n \div 2] + sorted[(n \div 2) + 1]) \div 2

\* the replies the pinger of the call has received
Replies == IF call.started THEN call.out.pingTimes ELSE <<>>

\* C15: on a cache miss pingCached returns the median of the round-trip
\* times of the replies it received (1, 2 or 3 of them), and it returns the
\* timeout sentinel exactly when no reply was received or the probe could
\* not be started.
C15_MedianOfReplies ==
    (call.fn = "pingCached" /\ call.returned) =>
        /\ Len(Replies) > 0 => call.value = MedianOf(Replies)
        /\ call.value = TimeoutMs <=> Len(Replies) = 0

(***************************************************************************)
(* SpecLive: the pass of Spec under a scheduler that does not stop: as     *)
(* long as some goroutine can take a step, a step is taken.  Every         *)
(* network call of the model returns in one step.  The candidates come     *)
(* from DNS only.                                                          *)
(***************************************************************************)
\* the page source is out of reach: getIPFromWeb finds no address
WebLookupFails(p, i) == WebLookupOf(p, i, {<<>>})

NextLive ==
    \/ \E p \in Passes : DetectHostsStart(p)
    \/ \E p \in Passes : \E i \in TaskIds(p) : Acquire(p, i)
    \/ \E p \in Passes : \E i \in TaskIds(p) : WebLookupFails(p, i)
    \/ \E p \in Passes : \E i \in TaskIds(p) : DNSLookup(p, i)
    \/ \E p \in Passes : \E i \in TaskIds(p) : Aggregate(p, i)
    \/ \E p \in Passes : \E i \in TaskIds(p) : PingCachedLookup(p, i)
    \/ \E p \in Passes : \E i \in TaskIds(p) : PingCachedProbe(p, i)
    \/ \E p \in Passes : \E i \in TaskIds(p) : Send(p, i)
    \/ \E p \in Passes : \E i \in TaskIds(p) : Release(p, i)
    \/ \E p \in Passes : CloseResultChan(p)
    \/ \E p \in Passes : Collect(p)
    \/ \E p \in Passes : DetectHostsReturn(p)
    \/ \E p \in Passes : WriteHostsFile(p)

SpecLive == Init /\ [][NextLive]_vars /\ WF_vars(NextLive)

\* the entry point of pass p has returned
Finished(p) == mainPc[p] \in {"failed", "saved", "saveFailed"}

\* C16: every pass over a non-empty list returns: every domain goroutine
\* gets a permit, sends its result without blocking and gives the permit
\* back, the channel is closed and the collection loop ends.  Until the
\* entry point has returned some goroutine can always take a step, the
\* channel has room for every goroutine that is about to send, and
\* eventually DetectHosts has returned for every pass, with every goroutine
\* finished and no permit held.
C16_EveryPassReturns ==
    /\ [](\A p \in Passes : ~Finished(p) => ENABLED NextLive)
    /\ [](\A p \in Passes : \A i \in TaskIds(p) :
            tasks[p][i].pc = "send" =>
                Len(resultChan[p]) < Len(domains[p]))
    /\ <>(\A p \in Passes :
            /\ ret[p].returned
            /\ Finished(p)
            /\ \A i \in TaskIds(p) : tasks[p][i].pc = "done"
            /\ semaphore[p] = 0
            /\ chanClosed[p] \/ NoDomains)

\* C16 witness: a pass over a list longer than the limiter has returned
\* without error
C16_Witness ==
    \E p \in Passes :
        /\ Finished(p)
        /\ ReturnedOk(p)
        /\ Len(domains[p]) > MaxConcurrent

\* the goroutines that have left the lookups of getBestIP and still hold
\* their locals
PastLookups == {t \in Tasks : t.pc \in {"ping", "probe", "send"}}

\* the goroutines for which getBestIP has called selectBestIP
HandedOver == {t \in PastLookups : t.caller # ""}

\* C17: getBestIP runs the DNS and the web lookup concurrently and merges
\* only after both have finished; the candidate list it hands to
\* selectBestIP has no duplicates, is in ascending string order and holds
\* exactly the addresses of the two answers that are not in DiscardList and
\* parse as an IP, whichever lookup finished first.
C17_CandidatesAreTheMergedUnion ==
    /\ \A t \in Tasks :
          (t.pc = "lookup" \/ ~(t.webDone /\ t.dnsDone)) =>
              t.ipList = <<>> /\ t.caller = ""
    /\ \A t \in PastLookups : t.webDone /\ t.dnsDone
    /\ \A t \in HandedOver :
          /\ t.ipList # <<>>
          /\ \A n, m \in 1..Len(t.ipList) :
                n < m => StringLess(t.ipList[n], t.ipList[m])
          /\ \A ip \in IPStrings :
                ip \in Range(t.ipList) <=>
                    /\ ip \in Range(t.webIPs) \cup Range(t.dnsIPs)
                    /\ ip \notin Range(DiscardList)
                    /\ ParseIPOk(ip)
          /\ Range(t.ipList) \subseteq IPStrings

\* C17 witness: selectBestIP got two candidates from a web answer with a
\* duplicate, a discarded and an unparsable address and a DNS answer that
\* repeats one of them, while in another goroutine the DNS lookup has
\* finished before the web lookup
C17_Witness ==
    /\ \E t \in HandedOver :
          /\ Len(t.ipList) = 2
          /\ Len(t.webIPs) > 2
          /\ Len(t.dnsIPs) > 0
    /\ \E t \in Tasks : t.pc = "lookup" /\ t.dnsDone /\ ~t.webDone

\* C18: within a pass, sorting, rendering and writing begin only when no
\* domain goroutine of the pass is running: the channel is closed only
\* after every goroutine has finished, and DetectHosts returns, and the
\* entry point renders and writes, only after the closed channel is
\* drained and every result collected.
C18_TailAfterAllTasks ==
    /\ \A p \in Passes :
          /\ chanClosed[p] =>
                \A i \in TaskIds(p) : tasks[p][i].pc = "done"
          /\ (ReturnedOk(p) \/ reply[p].done
                 \/ mainPc[p] \in {"detected", "saved", "saveFailed"}) =>
                /\ chanClosed[p]
                /\ Inside(p) = {}
                /\ semaphore[p] = 0
                /\ Len(resultChan[p]) = 0
                /\ Len(results[p]) = Len(tasks[p])
    /\ outputFile # NoFile =>
          \E p \in Passes :
              /\ mainPc[p] = "saved"
              /\ chanClosed[p]
              /\ \A i \in TaskIds(p) : tasks[p][i].pc = "done"

\* C18 witness: the output file has been written for a pass over a list
\* longer than the limiter
C18_Witness ==
    /\ outputFile # NoFile
    /\ \E p \in Passes : Len(tasks[p]) > MaxConcurrent /\ mainPc[p] = "saved"

(***************************************************************************)
(* SpecRead: one call of readDomainFile on a file that can be read.  A     *)
(* line is the sequence of its characters.                                 *)
(***************************************************************************)
\* the characters of the lines: a space, the comment sign, a backslash and
\* a letter
Chars == {" ", "#", "\\", "a"}

\* the lines scanner.Text() can return
Lines == SeqsUpTo(Chars, MaxLineLen)

\* strings.TrimSpace
RECURSIVE TrimLeft(_)
TrimLeft(s) ==
    IF s # <<>> /\ Head(s) = " " THEN TrimLeft(Tail(s)) ELSE s

RECURSIVE TrimRight(_)
TrimRight(s) ==
    IF s # <<>> /\ s[Len(s)] = " "
    THEN TrimRight(SubSeq(s, 1, Len(s) - 1))
    ELSE s

TrimSpace(s) == TrimRight(TrimLeft(s))

\* strings.Index(s, "#"), counting from 1; 0 when s has no "#"
RECURSIVE IndexFrom(_, _)
IndexFrom(s, n) ==
    IF n > Len(s) THEN 0
    ELSE IF s[n] = "#" THEN n
    ELSE IndexFrom(s, n + 1)

IndexOfHash(s) == IndexFrom(s, 1)

\* ScanLine that does not trim what is left before the comment sign
ScanLine_NoTrim(list, text) ==
    LET line == TrimSpace(text)
    IN  IF line = <<>> \/ Head(line) = "#" THEN list
        ELSE LET idx == IndexOfHash(line)
                 cut == IF idx > 0 THEN SubSeq(line, 1, idx - 1) ELSE line
             IN  IF cut # <<>> THEN Append(list, cut) ELSE list

\* one iteration of the scanner loop of readDomainFile
ScanLine(list, text) ==
    LET line == TrimSpace(text)
    IN  IF line = <<>> \/ Head(line) = "#" THEN list
        ELSE LET idx == IndexOfHash(line)
                 cut == IF idx > 0
                        THEN TrimSpace(SubSeq(line, 1, idx - 1))
                        ELSE line
             IN  IF cut # <<>> THEN Append(list, cut) ELSE list

\* the scanner loop over the lines of the file
RECURSIVE ScanFrom(_, _)
ScanFrom(list, lines) ==
    IF lines = <<>> THEN list
    ELSE ScanFrom(ScanLine(list, Head(lines)), Tail(lines))

\* domains, err := hd.readDomainFile()
CallReadDomainFile ==
    /\ call.fn = "readDomainFile"
    /\ ~call.returned
    /\ call' = [call EXCEPT !.returned = TRUE,
                            !.domains = ScanFrom(<<>>, call.lines)]
    /\ UNCHANGED <<domainFile, entry, mainPc, domains, tasks, semaphore,
                   resultChan, chanClosed, results, ret, reply, PingCache,
                   pingRuns, outputFile>>

InitRead ==
    /\ NoPasses
    /\ \E lines \in SeqsUpTo(Lines, MaxLines) :
        call = [fn |-> "readDomainFile", lines |-> lines,
                returned |-> FALSE, domains |-> <<>>]

NextRead == CallReadDomainFile

SpecRead == InitRead /\ [][NextRead]_vars

\* the comment sign at position n of s is escaped by a backslash
Escaped(s, n) == n > 1 /\ s[n - 1] = "\\"

\* the positions of s at which a comment starts; with escapes, an escaped
\* comment sign starts none
CommentStarts(s, escapes) ==
    {n \in 1..Len(s) : s[n] = "#" /\ ~(escapes /\ Escaped(s, n))}

\* s up to the first comment start
BeforeComment(s, escapes) ==
    LET starts == CommentStarts(s, escapes)
    IN  IF starts = {} THEN s
        ELSE SubSeq(s, 1, (CHOOSE n \in starts : \A m \in starts : n <= m) - 1)

\* s without the backslashes that escape a comment sign
RECURSIVE Unescape(_)
Unescape(s) ==
    IF s = <<>> THEN <<>>
    ELSE IF Len(s) > 1 /\ s[1] = "\\" /\ s[2] = "#"
    THEN <<"#">> \o Unescape(SubSeq(s, 3, Len(s)))
    ELSE <<Head(s)>> \o Unescape(Tail(s))

\* a sequence without its blanks and leading and trailing spaces
Stripped(s) ==
    IF \A n \in 1..Len(s) : s[n] = " " THEN <<>>
    ELSE LET first == CHOOSE n \in 1..Len(s) :
                 s[n] # " " /\ \A m \in 1..(n - 1) : s[m] = " "
             last == CHOOSE n \in 1..Len(s) :
                 s[n] # " " /\ \A m \in (n + 1)..Len(s) : s[m] = " "
         IN  SubSeq(s, first, last)

\* the hostname of a line: nothing for a blank line and for a line whose
\* first character after the spaces is the comment sign, otherwise the
\* stripped text before the comment
HostnameOf(text, escapes) ==
    IF Stripped(text) = <<>> \/ Stripped(text)[1] = "#" THEN <<>>
    ELSE Stripped(BeforeComment(Stripped(text), escapes))

IsHostname(s) == s # <<>>

\* the hostnames of the lines that have one, in file order
HostnamesOf(lines, escapes) ==
    SelectSeq([n \in 1..Len(lines) |-> HostnameOf(lines[n], escapes)],
              IsHostname)

\* C19 as stated: readDomainFile returns, in file order, the non-empty
\* trimmed hostnames: blank lines and lines whose first non-space character
\* is '#' give no entry, the text from an unescaped '#' to the end of the
\* line is stripped, a line that is empty after that gives no entry, and an
\* escaped '#' is kept as part of the hostname (with or without the
\* backslash that escapes it).
C19_EscapedHashIsKept ==
    (call.fn = "readDomainFile" /\ call.returned) =>
        LET kept == HostnamesOf(call.lines, TRUE)
        IN  \/ call.domains = kept
            \/ call.domains = [n \in 1..Len(kept) |-> Unescape(kept[n])]

\* C19 amended: as above, but the text from the first '#' of the line to
\* its end is stripped whether or not a backslash precedes the '#'.
C19_CutAtFirstHash ==
    (call.fn = "readDomainFile" /\ call.returned) =>
        call.domains = HostnamesOf(call.lines, FALSE)

\* C19 witness: the call has returned two hostnames for a file whose first
\* line has a comment after the name and a space, and whose second line has
\* an escaped comment sign
C19_Witness ==
    /\ call.fn = "readDomainFile"
    /\ call.returned
    /\ call.lines = <<<<"a", " ", "#">>, <<"a", "\\", "#">>>>
    /\ Len(call.domains) = 2

(***************************************************************************)
(* SpecPasses: two passes of one process at the same time, the scheduled   *)
(* DetectAndSave and a request to /hosts/json.  Both read the same domain  *)
(* file, which has as many entries as the limiter has permits; the page    *)
(* source is out of reach.                                                 *)
(***************************************************************************)
\* the first resolver answers with one address
DNSLookupAnswers(p, i) == DNSLookupOf(p, i, {<<"10.0.0.1">>})

InitPasses ==
    /\ \E list \in DomainLists :
        /\ Len(list) = MaxConcurrent
        /\ domainFile = [ok |-> TRUE, domains |-> list]
    /\ NewPasses(<<"DetectAndSave", "hostsJSON">>)
    /\ FreshProcess

NextPasses ==
    \/ \E p \in Passes : DetectHostsStart(p)
    \/ \E p \in Passes : \E i \in TaskIds(p) : Acquire(p, i)
    \/ \E p \in Passes : \E i \in TaskIds(p) : WebLookupFails(p, i)
    \/ \E p \in Passes : \E i \in TaskIds(p) : DNSLookupAnswers(p, i)
    \/ \E p \in Passes : \E i \in TaskIds(p) : Aggregate(p, i)
    \/ \E p \in Passes : \E i \in TaskIds(p) : PingCachedLookup(p, i)
    \/ \E p \in Passes : \E i \in TaskIds(p) : PingCachedProbe(p, i)
    \/ \E p \in Passes : \E i \in TaskIds(p) : Send(p, i)
    \/ \E p \in Passes : \E i \in TaskIds(p) : Release(p, i)
    \/ \E p \in Passes : CloseResultChan(p)
    \/ \E p \in Passes : Collect(p)
    \/ \E p \in Passes : DetectHostsReturn(p)
    \/ \E p \in Passes : WriteHostsFile(p)
    \/ \E p \in Passes : HandleHostsJSON(p)

SpecPasses == InitPasses /\ [][NextPasses]_vars

\* the goroutines of all passes that are inside processHost
InsideAll == {pi \in Passes \X (1..NumDomains) : pi[2] \in Inside(pi[1])}

\* C20: across the whole process, also when several passes run at the same
\* time, the number of domain goroutines inside processHost, all passes
\* taken together, is at most MaxConcurrent.
C20_AtMostMaxConcurrentInProcess ==
    Cardinality(InsideAll) <= MaxConcurrent

(***************************************************************************)
(* processHost's second pingCached call.                                   *)
(***************************************************************************)
\* the goroutines that are about to send a successful HostResult: the
\* ipPing slice of their selectBestIP call is still among their locals
AboutToSendSuccess ==
    {t \in Tasks : t.pc = "send" /\ t.result.Error = ""}

\* the latency selectBestIP measured for address ip in the selection of
\* goroutine t
MeasuredInSelection(t, ip) ==
    {t.results[n].Ping : n \in {m \in 1..Len(t.results) : t.results[m].IP = ip}}

\* C21: the Ping of every successful HostResult equals the latency that
\* selectBestIP measured for the chosen address when it selected it, under
\* any interleaving with other domain goroutines that probe the same
\* address.
C21_PingIsTheSelectedLatency ==
    \A t \in AboutToSendSuccess :
        /\ t.result.IP = t.bestIP
        /\ MeasuredInSelection(t, t.bestIP) = {t.result.Ping}

(***************************************************************************)
(* SpecFile: the output file under concurrent use.  The scheduled          *)
(* DetectAndSave pass and the pass of a /hosts/json request have both      *)
(* returned from DetectHosts and call WriteHostsFile, while GET /hosts     *)
(* requests read the file.  WriteHostsFile is taken step by step:          *)
(* os.Create, then the deferred Flush and Close.                           *)
(***************************************************************************)
\* the end of a line in the file
LineEnd == "\n"

\* A text as the file holds it: the pieces of its lines (the address padded
\* to 30 columns, the hostname, the timeout mark), each line followed by its
\* line end.  Offsets in the file are counted in pieces.  Two passes over
\* the same domain list render texts of the same length exactly when they
\* have the same number of timeout marks, in pieces as in bytes.
RECURSIVE Pieces(_)
Pieces(text) ==
    IF text = <<>> THEN <<>>
    ELSE Head(text) \o <<LineEnd>> \o Pieces(Tail(text))

\* the lines of a file content; what follows the last line end is a line
\* of its own
RECURSIVE LinesOf(_)
LinesOf(pieces) ==
    IF pieces = <<>> THEN <<>>
    ELSE LET end == CHOOSE n \in 1..(Len(pieces) + 1) :
                        /\ n <= Len(pieces) => pieces[n] = LineEnd
                        /\ \A m \in 1..(n - 1) : pieces[m] # LineEnd
         IN  IF end > Len(pieces) THEN <<pieces>>
             ELSE <<SubSeq(pieces, 1, end - 1)>> \o
                  LinesOf(SubSeq(pieces, end + 1, Len(pieces)))

\* writer.Flush() on a descriptor that os.Create returned: one write at
\* offset 0.  It replaces as much of the file as the text is long; what the
\* file holds beyond that stays.
WriteAtStart(file, text) ==
    LET old == Pieces(file)
        new == Pieces(text)
    IN  IF Len(new) >= Len(old) THEN text
        ELSE LinesOf(new \o SubSeq(old, Len(new) + 1, Len(old)))

\* the file os.Create leaves: it exists and is empty
EmptyFile == <<>>

\* what DetectAndSave returns after WriteHostsFile has returned nil
SavedReply(res) ==
    [NoReply EXCEPT !.done = TRUE, !.total = Len(res),
                    !.success = SuccessCount(res)]

\* what a JSON handler responds after WriteHostsFile has returned
JSONReply(res, saveError) ==
    [done |-> TRUE, err |-> "", code |-> 200, results |-> res,
     content |-> GenerateHostsContent(res), total |-> Len(res),
     success |-> SuccessCount(res), saveError |-> saveError]

\* file, err := os.Create(hd.outputFile) in WriteHostsFile.  On success the
\* file is truncated and the lines go into the bufio.Writer; on failure
\* WriteHostsFile returns the error and the entry point goes on as in
\* WriteHostsFile(p) and RespondJSON(p).
OsCreate(p) ==
    /\ mainPc[p] = "detected"
    /\ \E created \in BOOLEAN :
        IF created
        THEN /\ outputFile' = EmptyFile
             /\ mainPc' = [mainPc EXCEPT ![p] = "writing"]
             /\ reply' = reply
        ELSE /\ outputFile' = outputFile
             /\ IF entry[p] = "DetectAndSave"
                THEN /\ mainPc' = [mainPc EXCEPT ![p] = "saveFailed"]
                     /\ reply' = [reply EXCEPT ![p] =
                           [NoReply EXCEPT !.done = TRUE,
                                           !.err = WriteFailedError]]
                ELSE /\ mainPc' = [mainPc EXCEPT ![p] = "responded"]
                     /\ reply' = [reply EXCEPT ![p] =
                           JSONReply(ret[p].results, CreateFailedError)]
    /\ UNCHANGED <<domainFile, entry, domains, tasks, semaphore, resultChan,
                   chanClosed, results, ret, PingCache, pingRuns, call>>

\* The rest of WriteHostsFile and of its entry point.  The Fprintf calls
\* fill the buffer of the bufio.Writer (4096 bytes, more than the texts of
\* the domain lists taken here), the deferred Flush writes it to the file in
\* one write and the deferred Close closes the descriptor; then
\* DetectAndSave returns nil, or the handler responds.
FlushAndClose(p) ==
    /\ mainPc[p] = "writing"
    /\ outputFile' = WriteAtStart(outputFile, HostsFileText(ret[p].results))
    /\ IF entry[p] = "DetectAndSave"
       THEN /\ mainPc' = [mainPc EXCEPT ![p] = "saved"]
            /\ reply' = [reply EXCEPT ![p] = SavedReply(ret[p].results)]
       ELSE /\ mainPc' = [mainPc EXCEPT ![p] = "responded"]
            /\ reply' = [reply EXCEPT ![p] = JSONReply(ret[p].results, "")]
    /\ UNCHANGED <<domainFile, entry, domains, tasks, semaphore, resultChan,
                   chanClosed, results, ret, PingCache, pingRuns, call>>

\* The handler of GET /hosts: os.ReadFile of the output file; the content
\* goes out with code 200, a read error with code 500.
HandleHosts ==
    /\ call' = IF outputFile = NoFile
               THEN [fn |-> "hosts", code |-> 500, content |-> <<>>]
               ELSE [fn |-> "hosts", code |-> 200, content |-> outputFile]
    /\ UNCHANGED <<domainFile, entry, mainPc, domains, tasks, semaphore,
                   resultChan, chanClosed, results, ret, reply, PingCache,
                   pingRuns, outputFile>>

\* the state of the process when DetectHosts has returned res1 to the
\* scheduled task and res2 to the handler of /hosts/json
DetectedBoth(list, res1, res2) ==
    /\ domainFile = [ok |-> TRUE, domains |-> list]
    /\ entry = <<"DetectAndSave", "hostsJSON">>
    /\ mainPc = <<"detected", "detected">>
    /\ domains = <<list, list>>
    /\ tasks = [p \in 1..2 |->
                   [i \in 1..Len(list) |-> Exited(NewTask(list[i]), "done")]]
    /\ semaphore = <<0, 0>>
    /\ resultChan = <<<<>>, <<>>>>
    /\ chanClosed = <<TRUE, TRUE>>
    /\ results = <<res1, res2>>
    /\ \E sorted1 \in SortByDomainOrder(list, res1) :
       \E sorted2 \in SortByDomainOrder(list, res2) :
        ret = <<[results |-> sorted1, err |-> "", returned |-> TRUE],
                [results |-> sorted2, err |-> "", returned |-> TRUE]>>
    /\ reply = <<NoReply, NoReply>>
    /\ PingCache = [ip \in ResolvedIPs(res1) \cup ResolvedIPs(res2) |->
                       IF ip = "10.0.0.1" THEN 10 ELSE TimeoutMs]
    /\ pingRuns = [ip \in IPStrings |->
                      IF ip \in ResolvedIPs(res1) \cup ResolvedIPs(res2)
                      THEN 1 ELSE 0]
    /\ outputFile = NoFile
    /\ call = NoCall

InitFile ==
    \E list \in DomainLists :
        /\ Len(list) > 0
        /\ \E res1, res2 \in ResultLists(list) : DetectedBoth(list, res1, res2)

NextFile ==
    \/ \E p \in Passes : OsCreate(p)
    \/ \E p \in Passes : FlushAndClose(p)
    \/ HandleHosts

SpecFile == InitFile /\ [][NextFile]_vars

\* the complete renderings of the results of the passes
PassRenderings == {HostsFileText(ret[p].results) : p \in Passes}

\* a GET /hosts request has been answered with the content of the file
FileWasRead == call.fn = "hosts" /\ call.code = 200

\* in this step the write of pass p completes
WriteCompletes(p) == mainPc[p] = "writing" /\ mainPc'[p] # "writing"

\* every content a reader has received is the rendering of one pass
ReadersSeeOnePass == [](FileWasRead => call.content \in PassRenderings)

\* every write that completes leaves the rendering of one pass
WritesLeaveOnePass ==
    [][\A p \in Passes : WriteCompletes(p) =>
          outputFile' \in PassRenderings]_vars

\* C22: whenever the output file is read (GET /hosts) or a write to it
\* completes, its content is the complete rendering of the results of
\* exactly one pass: no reader observes a truncated file, and two
\* concurrent WriteHostsFile calls never leave content mixed from both
\* passes.
C22_FileIsOneCompleteRendering ==
    ReadersSeeOnePass /\ WritesLeaveOnePass

====
